---- MODULE Spec2Model ----
(***************************************************************************)
(* A model of lazy_destruct.hpp: the per-thread deferred_heap (a byte      *)
(* arena `heap` and the FIFO queue `elements` of element_information) and  *)
(* the lazy_destruct<type> wrapper whose destructor hands the value's byte *)
(* image and a type-bound deleter to the calling thread's deferred_heap.   *)
(***************************************************************************)
EXTENDS Integers, Sequences, FiniteSets, TLC

\* ------------------------------------------------------------------ bounds
\* The capacity argument of deferred_heap's constructor (512UL by default in
\* the source), kept small so that a full arena is reached with few values.
Capacity == 16
\* Values constructed, over all threads.
MaxObjects == 3
\* Longest array of slots held by one scope (helper() holds 5).
MaxArray == 2

\* The main thread and the thread split_one of main().
Threads == {1, 2}

\* ------------------------------------------------------- the wrapped types
\* Noisy is the source's demonstration type; Wide stands for a second type
\* with a destructor and another size; Plain is trivially destructible.
Types == {"Noisy", "Wide", "Plain"}

\* Types whose destructors come back to the heap of the running thread:
\*   Nest    holds a lazy_destruct<Tiny> member, so ~Nest() runs ~lazy_destruct
\*           on it; Tiny is a 4-byte type with a destructor;
\*   Drainer has a destructor that calls deferred_heap::get().dequeue(),
\*           unless a ~Drainer() of this thread is already doing so.
NestedTypes == {"Noisy", "Nest", "Drainer"}

sizeof(type) ==
    CASE type = "Noisy" -> 8
      [] type = "Wide"  -> 12
      [] type = "Plain" -> 4
      [] type = "Nest"  -> 4
      [] type = "Tiny"  -> 4
      [] type = "Drainer" -> 4

is_trivially_destructible(type) == type = "Plain"

\* A byte of a value's image: <<constructing thread, serial, position>>.
\* The vector's value-initialised bytes are ZeroByte.
ZeroByte == <<0, 0, 0>>

\* The inline storage `value` after the placement new of the n-th value
\* constructed by thread t.
Image(t, n, type) == [k \in 1..sizeof(type) |-> <<t, n, k>>]

VARIABLES
    heapState,  \* per heap: "none" (not yet constructed), "alive", "destroyed",
                \* "undefined" (a call on it had undefined behaviour)
    heap,       \* per heap: std::vector<std::byte> heap
    elements,   \* per heap: std::queue<element_information> elements
    slots,      \* per thread: the live lazy_destruct objects, oldest first
    made,       \* per thread: number of slots constructed so far
    exited,     \* per thread: the thread has ended
    log,        \* per thread: the deleter invocations made by this thread
    enq,        \* per thread: the byte images handed to enqueue, in call order
    last        \* the latest step, when it was a dequeue(), clear() or helper()

vars == <<heapState, heap, elements, slots, made, exited, log, enq, last>>

\* ------------------------------------------------------------ deferred_heap
\* The operations below map a record h to the record after the call:
\*   state, heap, elements : the deferred_heap instance of the calling thread
\*   log, enq              : the calling thread's history
\*   busy                  : a ~Drainer() of the calling thread is running
\*   undefined             : the call has popped the empty std::queue

\* deferred_heap(capacity): heap.resize(capacity), an empty queue.
deferred_heap(h, cap) ==
    [h EXCEPT !.state = "alive",
              !.heap = [i \in 1..cap |-> ZeroByte],
              !.elements = <<>>]

\* One instance for every thread: a static instead of a thread_local.
instance_shared(t) == 1

\* The index of the instance that get() returns to thread t: it is thread_local.
instance_of(t) == t

\* get() that hands out a freshly constructed heap on every call.
get_fresh(h) == deferred_heap(h, Capacity)

\* get(): the function-local thread_local instance is constructed, with the
\* default capacity, the first time control passes through its declaration.
get(h) ==
    IF h.state = "none" THEN deferred_heap(h, Capacity) ELSE h

RECURSIVE CallDeleter(_, _, _, _, _), enqueue(_, _, _), dequeue(_), destruct(_, _)

\* info.deleter(pointer): the type's destructor runs on the bytes at pointer.
\* region is "value" (the storage of the caller of enqueue) or "heap"
\* (heap.data() + at). ~Nest() destroys its member, a lazy_destruct<Tiny> on
\* the same bytes; ~Drainer() calls dequeue() on the thread's heap.
CallDeleter(h, del, region, at, bytes) ==
    LET called == [h EXCEPT !.log = Append(@, [deleter |-> del,
                                               region |-> region,
                                               at |-> at, object |-> bytes])]
    IN  CASE del = "Nest" ->
               destruct(called, [type |-> "Tiny", value |-> bytes])
          [] del = "Drainer" /\ ~called.busy ->
               [dequeue(get([called EXCEPT !.busy = TRUE])).h
                  EXCEPT !.busy = FALSE]
          [] OTHER -> called

\* The offset of the tail entry, its size forgotten.
NextOffset_overlap(q) ==
    IF q = <<>> THEN 0 ELSE q[Len(q)].offset

\* info.offset as enqueue computes it.
NextOffset(q) ==
    IF q = <<>> THEN 0 ELSE q[Len(q)].offset + q[Len(q)].size

\* std::copy that starts one byte too far into the arena.
Copy_shifted(bytes, arena, offset) ==
    [i \in 1..Len(arena) |->
        IF i > offset + 1 /\ i <= offset + 1 + Len(bytes)
        THEN bytes[i - offset - 1]
        ELSE arena[i]]

\* std::copy(element, element + info.size, std::begin(heap) + info.offset)
Copy(bytes, arena, offset) ==
    [i \in 1..Len(arena) |->
        IF i > offset /\ i <= offset + Len(bytes) THEN bytes[i - offset]
        ELSE arena[i]]

\* enqueue() that copies into the arena before it looks at the capacity.
enqueue_copy_first(h0, info, element) ==
    LET h == [h0 EXCEPT !.enq = Append(@, element)]
        offset == NextOffset(h.elements)
        copied == [h EXCEPT !.heap = Copy(element, h.heap, offset)]
    IN  IF offset + info.size > Len(h.heap)
        THEN CallDeleter(copied, info.deleter, "value", 0, element)
        ELSE [copied EXCEPT
                !.elements = Append(@, [size |-> info.size,
                                        deleter |-> info.deleter,
                                        offset |-> offset])]

\* enqueue() that also turns away the entry that would end exactly at the
\* capacity.
enqueue_strict(h0, info, element) ==
    LET h == [h0 EXCEPT !.enq = Append(@, element)]
        offset == NextOffset(h.elements)
    IN  IF offset + info.size >= Len(h.heap)
        THEN CallDeleter(h, info.deleter, "value", 0, element)
        ELSE [h EXCEPT
                !.heap = Copy(element, h.heap, offset),
                !.elements = Append(@, [size |-> info.size,
                                        deleter |-> info.deleter,
                                        offset |-> offset])]

\* enqueue() that puts the new entry at the head of the queue.
enqueue_front(h0, info, element) ==
    LET h == [h0 EXCEPT !.enq = Append(@, element)]
        offset == NextOffset(h.elements)
    IN  IF offset + info.size > Len(h.heap)
        THEN CallDeleter(h, info.deleter, "value", 0, element)
        ELSE [h EXCEPT
                !.heap = Copy(element, h.heap, offset),
                !.elements = <<[size |-> info.size,
                                deleter |-> info.deleter,
                                offset |-> offset]>> \o @]

enqueue(h0, info, element) ==
    LET h == [h0 EXCEPT !.enq = Append(@, element)]
        offset == NextOffset(h.elements)
    IN  IF offset + info.size > Len(h.heap)
        THEN CallDeleter(h, info.deleter, "value", 0, element)
        ELSE [h EXCEPT
                !.heap = Copy(element, h.heap, offset),
                !.elements = Append(@, [size |-> info.size,
                                        deleter |-> info.deleter,
                                        offset |-> offset])]

\* elements.pop(): the front entry is removed. On an empty std::queue the
\* behaviour is undefined.
pop(h) ==
    IF h.elements = <<>> THEN [h EXCEPT !.undefined = TRUE]
    ELSE [h EXCEPT !.elements = Tail(@)]

\* dequeue() that drops the head entry without calling its deleter.
dequeue_skip(h) ==
    IF h.elements = <<>>
    THEN [h |-> h, ret |-> FALSE]
    ELSE [h |-> [h EXCEPT !.elements = Tail(@)], ret |-> TRUE]

\* dequeue() taking the entry at the tail instead of the head.
dequeue_back(h) ==
    IF h.elements = <<>>
    THEN [h |-> h, ret |-> FALSE]
    ELSE LET back == h.elements[Len(h.elements)]
             called == CallDeleter(h, back.deleter, "heap", back.offset,
                           SubSeq(h.heap, back.offset + 1, back.offset + back.size))
         IN  [h |-> [called EXCEPT !.elements = SubSeq(@, 1, Len(@) - 1)],
              ret |-> TRUE]

\* dequeue() that pops the head entry before it calls its deleter.
dequeue_pop_first(h) ==
    IF h.elements = <<>>
    THEN [h |-> h, ret |-> FALSE]
    ELSE LET head_element == Head(h.elements)
         IN  [h |-> CallDeleter(pop(h), head_element.deleter, "heap",
                        head_element.offset,
                        SubSeq(h.heap, head_element.offset + 1,
                               head_element.offset + head_element.size)),
              ret |-> TRUE]

\* The result of dequeue(): the record afterwards and the returned bool.
dequeue(h) ==
    IF h.elements = <<>>
    THEN [h |-> h, ret |-> FALSE]
    ELSE LET head_element == Head(h.elements)
             called == CallDeleter(h, head_element.deleter, "heap",
                           head_element.offset,
                           SubSeq(h.heap, head_element.offset + 1,
                                  head_element.offset + head_element.size))
         IN  [h |-> pop(called), ret |-> TRUE]

\* clear() with an if for the while: a single dequeue().
clear_once(h) == dequeue(h).h

\* clear(): while(dequeue());
RECURSIVE clear(_)
clear(h) ==
    LET r == dequeue(h)
    IN  IF r.ret THEN clear(r.h) ELSE r.h

\* ~deferred_heap() without the clear().
destroy_heap_noclear(h) == [h EXCEPT !.state = "destroyed"]

\* ~deferred_heap()
destroy_heap(h) == [clear(h) EXCEPT !.state = "destroyed"]

\* ------------------------------------------------------------ lazy_destruct

\* The deleter lambda of ~lazy_destruct: one per instantiation of the wrapper.
deleter(type) == type

\* lazy_destruct(Args&&...): the slot after the placement new of the n-th value
\* constructed by thread t.
lazy_destruct(t, n, type) == [type |-> type, value |-> Image(t, n, type)]

\* lazy_destruct(lazy_destruct&& other) : value{ std::move(other.value) }: the
\* new slot's storage holds the bytes of other's storage; other stays as it
\* is, a slot whose destructor is still to run.
lazy_destruct_move(other) == [type |-> other.type, value |-> other.value]

\* ~lazy_destruct() without the is_trivially_destructible_v early return.
destruct_always(h, slot) ==
    enqueue(get(h),
            [size |-> sizeof(slot.type), deleter |-> deleter(slot.type)],
            slot.value)

\* ~lazy_destruct() of a slot by the thread whose record is h.
destruct(h, slot) ==
    IF is_trivially_destructible(slot.type)
    THEN h
    ELSE enqueue(get(h),
                 [size |-> sizeof(slot.type), deleter |-> deleter(slot.type)],
                 slot.value)

\* The slots of an array, destroyed first to last.
RECURSIVE DestructArrayForward(_, _)
DestructArrayForward(h, temp) ==
    IF temp = <<>> THEN h
    ELSE DestructArrayForward(destruct(h, Head(temp)), Tail(temp))

\* The slots of an array, destroyed last to first.
RECURSIVE DestructArray(_, _)
DestructArray(h, temp) ==
    IF temp = <<>> THEN h
    ELSE DestructArray(destruct(h, temp[Len(temp)]), SubSeq(temp, 1, Len(temp) - 1))

\* ----------------------------------------------------------------- actions

Remove(s, i) == SubSeq(s, 1, i - 1) \o SubSeq(s, i + 1, Len(s))

TotalMade == made[1] + made[2]

\* The record of thread t: its instance and its history.
Self(t) ==
    [state |-> heapState[instance_of(t)], heap |-> heap[instance_of(t)],
     elements |-> elements[instance_of(t)], log |-> log[t], enq |-> enq[t],
     busy |-> FALSE, undefined |-> FALSE]

\* What a call by thread t leaves behind.
Store(t, h) ==
    /\ heapState' = [heapState EXCEPT ![instance_of(t)] =
                        IF h.undefined THEN "undefined" ELSE h.state]
    /\ heap' = [heap EXCEPT ![instance_of(t)] = h.heap]
    /\ elements' = [elements EXCEPT ![instance_of(t)] = h.elements]
    /\ log' = [log EXCEPT ![t] = h.log]
    /\ enq' = [enq EXCEPT ![t] = h.enq]

\* The latest step was no dequeue(), clear() or helper().
NoCall == [thread |-> 0, op |-> "none", ret |-> FALSE, n |-> 0]

Init ==
    /\ heapState = [g \in Threads |-> "none"]
    /\ heap = [g \in Threads |-> <<>>]
    /\ elements = [g \in Threads |-> <<>>]
    /\ slots = [t \in Threads |-> <<>>]
    /\ made = [t \in Threads |-> 0]
    /\ exited = [t \in Threads |-> FALSE]
    /\ log = [t \in Threads |-> <<>>]
    /\ enq = [t \in Threads |-> <<>>]
    /\ last = NoCall

\* A slot is constructed by thread t.
Construct(t, type) ==
    /\ ~exited[t]
    /\ TotalMade < MaxObjects
    /\ made' = [made EXCEPT ![t] = @ + 1]
    /\ slots' = [slots EXCEPT ![t] = Append(@, lazy_destruct(t, made[t] + 1, type))]
    /\ last' = NoCall
    /\ UNCHANGED <<heapState, heap, elements, exited, log, enq>>

\* The i-th live slot of thread t is destroyed.
Destruct(t, i) ==
    /\ ~exited[t]
    /\ i \in 1..Len(slots[t])
    /\ Store(t, destruct(Self(t), slots[t][i]))
    /\ slots' = [slots EXCEPT ![t] = Remove(@, i)]
    /\ last' = NoCall
    /\ UNCHANGED <<made, exited>>

\* deferred_heap::get().dequeue()
Dequeue(t) ==
    /\ ~exited[t]
    /\ LET r == dequeue(get(Self(t)))
       IN  /\ Store(t, r.h)
           /\ last' = [thread |-> t, op |-> "dequeue", ret |-> r.ret, n |-> 0]
    /\ UNCHANGED <<slots, made, exited>>

\* deferred_heap::get().clear()
Clear(t) ==
    /\ ~exited[t]
    /\ Store(t, clear(get(Self(t))))
    /\ last' = [thread |-> t, op |-> "clear", ret |-> FALSE, n |-> 0]
    /\ UNCHANGED <<slots, made, exited>>

\* helper(): lazy_destruct<Noisy> temp[n]; the elements are constructed first
\* to last and destroyed at the closing brace.
Helper(t, n) ==
    /\ ~exited[t]
    /\ TotalMade + n <= MaxObjects
    /\ Store(t, DestructArray(Self(t),
                    [i \in 1..n |-> lazy_destruct(t, made[t] + i, "Noisy")]))
    /\ made' = [made EXCEPT ![t] = @ + n]
    /\ last' = [thread |-> t, op |-> "helper", ret |-> FALSE, n |-> n]
    /\ UNCHANGED <<slots, exited>>

\* The thread ends: its thread_local deferred_heap, if it was constructed, is
\* destroyed.
ThreadExit(t) ==
    /\ ~exited[t]
    /\ slots[t] = <<>>
    /\ exited' = [exited EXCEPT ![t] = TRUE]
    /\ IF heapState[instance_of(t)] = "alive"
       THEN Store(t, destroy_heap(Self(t)))
       ELSE UNCHANGED <<heapState, heap, elements, log, enq>>
    /\ last' = NoCall
    /\ UNCHANGED <<slots, made>>

Next ==
    \E t \in Threads :
        \/ \E type \in Types : Construct(t, type)
        \/ \E i \in 1..MaxObjects : Destruct(t, i)
        \/ Dequeue(t)
        \/ Clear(t)
        \/ \E n \in 1..MaxArray : Helper(t, n)
        \/ ThreadExit(t)

Spec == Init /\ [][Next]_vars

\* Nothing is known of a thread after undefined behaviour: it takes no step.
Defined(t) == heapState[instance_of(t)] # "undefined"

\* The main thread alone, with wrapped types whose destructors come back to
\* its heap.
NextNested ==
    \E t \in {1} :
        \/ \E type \in NestedTypes : Defined(t) /\ Construct(t, type)
        \/ \E i \in 1..MaxObjects : Defined(t) /\ Destruct(t, i)
        \/ Defined(t) /\ Dequeue(t)
        \/ Defined(t) /\ Clear(t)
        \/ Defined(t) /\ ThreadExit(t)

SpecNested == Init /\ [][NextNested]_vars

\* A slot is move-constructed by thread t from its i-th live slot.
Move(t, i) ==
    /\ ~exited[t]
    /\ TotalMade < MaxObjects
    /\ i \in 1..Len(slots[t])
    /\ made' = [made EXCEPT ![t] = @ + 1]
    /\ slots' = [slots EXCEPT ![t] = Append(@, lazy_destruct_move(slots[t][i]))]
    /\ last' = NoCall
    /\ UNCHANGED <<heapState, heap, elements, exited, log, enq>>

\* The main thread alone, with move construction.
NextMove ==
    \E t \in {1} :
        \/ \E type \in Types : Construct(t, type)
        \/ \E i \in 1..MaxObjects : Move(t, i)
        \/ \E i \in 1..MaxObjects : Destruct(t, i)
        \/ Dequeue(t)
        \/ Clear(t)
        \/ ThreadExit(t)

SpecMove == Init /\ [][NextMove]_vars

\* ------------------------------------------------------------------ claims

\* The value a byte image belongs to: <<constructing thread, serial>>.
ObjectOf(bytes) == <<bytes[1][1], bytes[1][2]>>

RECURSIVE SumLen(_)
SumLen(images) ==
    IF images = <<>> THEN 0 ELSE Len(Head(images)) + SumLen(Tail(images))

\* The values whose cleanup thread t has run, in the order it ran them.
Released(t) == [i \in 1..Len(log[t]) |-> ObjectOf(log[t][i].object)]

\* The values pending in heap g, head first, as read from the arena.
Pending(g) ==
    [i \in 1..Len(elements[g]) |->
        ObjectOf(SubSeq(heap[g], elements[g][i].offset + 1,
                        elements[g][i].offset + elements[g][i].size))]

\* The step is a dequeue() or clear() call by t, or the end of thread t.
Drains(t) ==
    \/ last'.thread = t /\ last'.op \in {"dequeue", "clear"}
    \/ exited'[t] # exited[t]

\* The cleanups thread t has run are those of the slots it destroyed first,
\* on the bytes handed over; after clear() all of them have run.
C1_InOrder(t) ==
    SumLen(enq[t]) <= Capacity =>
        /\ Len(log[t]) <= Len(enq[t])
        /\ \A i \in 1..Len(log[t]) : log[t][i].object = enq[t][i]
        /\ (last.thread = t /\ last.op = "clear") => Len(log[t]) = Len(enq[t])

\* While the images fit, thread t runs a cleanup only when it drains.
C1_NotBeforeDrain(t) ==
    (SumLen(enq'[t]) <= Capacity /\ log'[t] # log[t]) => Drains(t)

\* C1: when the byte images a thread has handed to enqueue fit together in the
\* capacity, a cleanup runs only in a dequeue(), a clear() or the thread's end,
\* the cleanups that have run are those of the slots destroyed first, each once
\* and in the order of destruction, on the very bytes handed over, and right
\* after clear() every destroyed slot's cleanup has run.
C1_DeferredInDestructionOrder ==
    /\ [](\A t \in Threads : C1_InOrder(t))
    /\ [][\A t \in Threads : C1_NotBeforeDrain(t)]_vars

\* Two slots destroyed in the reverse of their construction, then clear().
C1_Witness ==
    /\ last.thread = 1 /\ last.op = "clear"
    /\ Len(enq[1]) = 2 /\ SumLen(enq[1]) <= Capacity
    /\ slots[1] = <<>>
    /\ Released(1) = <<<<1, 2>>, <<1, 1>>>>

\* Where the next entry of heap g would start.
End(g) ==
    IF elements[g] = <<>> THEN 0
    ELSE elements[g][Len(elements[g])].offset + elements[g][Len(elements[g])].size

\* The n slots of the array that thread t's helper() has just left are the
\* last n entries pending.
ArrayPending(t, n) ==
    /\ Len(elements[t]) >= n
    /\ {Pending(t)[i] : i \in (Len(elements[t]) - n + 1)..Len(elements[t])}
         = {<<t, m>> : m \in (made[t] - n + 1)..made[t]}

\* helper() by t, with room for its whole array: no cleanup has run at the
\* closing brace and every slot of the array is pending.
C2_AtScopeExit(t) ==
    (/\ last'.thread = t /\ last'.op = "helper"
     /\ End(t) + last'.n * sizeof("Noisy") <= Capacity)
    => /\ log'[t] = log[t]
       /\ Len(elements'[t]) = Len(elements[t]) + last'.n

\* clear() by t right after its helper(): every pending cleanup runs, and the
\* k-th of the array's cleanups is that of the value constructed as number
\* first + (k - 1) * step.
C2_AfterDrain(t, first, step) ==
    (/\ last.thread = t /\ last.op = "helper" /\ ArrayPending(t, last.n)
     /\ last'.thread = t /\ last'.op = "clear")
    => /\ Len(log'[t]) = Len(log[t]) + Len(elements[t])
       /\ \A k \in 1..last.n :
            ObjectOf(log'[t][Len(log'[t]) - last.n + k].object)
              = <<t, first + (k - 1) * step>>

\* C2 as claimed: the slots of one scope, destroyed together with enough
\* capacity, are all pending with no cleanup run at scope exit, and drain runs
\* their cleanups in the order in which the slots were constructed.
C2_ConstructionOrder ==
    [][\A t \in Threads :
         /\ C2_AtScopeExit(t)
         /\ C2_AfterDrain(t, made[t] - last.n + 1, 1)]_vars

\* C2 as amended: the slots of one scope, destroyed together with enough
\* capacity, are all pending with no cleanup run at scope exit, and drain runs
\* their cleanups in the order of destruction, which for an array or for the
\* locals of a scope is the reverse of the order of construction.
C2_ReverseConstructionOrder ==
    [][\A t \in Threads :
         /\ C2_AtScopeExit(t)
         /\ C2_AfterDrain(t, made[t], -1)]_vars

\* Right after helper() with an array of two: nothing has run, both are
\* pending, the second constructed at the head.
C2_Witness ==
    /\ last.thread = 1 /\ last.op = "helper" /\ last.n = 2
    /\ log[1] = <<>>
    /\ Pending(1) = <<<<1, 2>>, <<1, 1>>>>

\* The position in thread t's log of the cleanups run on the image `bytes`.
RanAt(t, bytes) == {p \in 1..Len(log[t]) : log[t][p].object = bytes}

\* C3 as claimed: on one thread the cleanups run in exactly the order in which
\* the values were handed to enqueue: when the cleanup of a value has run, the
\* cleanup of every value handed to enqueue before it has run earlier.
C3_Fifo ==
    \A t \in Threads : \A i, j \in 1..Len(enq[t]) :
        (i < j /\ RanAt(t, enq[t][j]) # {}) =>
            \E p \in RanAt(t, enq[t][i]) : \A q \in RanAt(t, enq[t][j]) : p < q

\* C4: once a thread has ended its heap is no longer alive; a destroyed heap
\* has no pending entry, and the cleanup of every value its thread handed to
\* enqueue has run exactly once.
C4_ReleasedAtTeardown ==
    \A t \in Threads :
        /\ exited[t] => heapState[t] # "alive"
        /\ heapState[t] = "destroyed" =>
            /\ elements[t] = <<>>
            /\ \A i \in 1..Len(enq[t]) : Cardinality(RanAt(t, enq[t][i])) = 1

\* A thread that ran helper() and ended: both cleanups ran from the arena.
C4_Witness ==
    /\ heapState[2] = "destroyed" /\ exited[2]
    /\ made[2] = 2 /\ Len(enq[2]) = 2 /\ Len(log[2]) = 2
    /\ \A i \in 1..2 : log[2][i].region = "heap"

\* The entry dequeue() releases: its deleter on the arena bytes at its offset.
Release(t, e) ==
    [deleter |-> e.deleter, region |-> "heap", at |-> e.offset,
     object |-> SubSeq(heap[t], e.offset + 1, e.offset + e.size)]

\* A destruction by thread t that finds no room in the arena.
C5_Fallback(t) ==
    \A i \in 1..Len(slots[t]) :
        LET slot == slots[t][i]
        IN  (/\ slots'[t] = Remove(slots[t], i)
             /\ ~is_trivially_destructible(slot.type)
             /\ End(t) + sizeof(slot.type) > Capacity)
            => /\ log'[t] = Append(log[t],
                       [deleter |-> deleter(slot.type), region |-> "value",
                        at |-> 0, object |-> slot.value])
               /\ elements'[t] = elements[t]
               /\ heap'[t] = heap[t]

\* C5: a slot destroyed when the tail entry's end plus the slot's size exceeds
\* the capacity has its deleter called in that very step on the slot's own
\* bytes; the queue and every arena byte stay as they were.
C5_FallbackLeavesHeap == [][\A t \in Threads : C5_Fallback(t)]_vars

\* A 12-byte value is pending at offset 0 and an 8-byte value, destroyed
\* after it, has been cleaned up in place.
C5_Witness ==
    /\ Len(enq[1]) = 2 /\ slots[1] = <<>>
    /\ Len(elements[1]) = 1 /\ elements[1][1].size = 12
    /\ Len(log[1]) = 1 /\ log[1][1].region = "value"
    /\ log[1][1].object = enq[1][2]

\* A dequeue() call by thread t.
C6_Dequeue(t) ==
    (last'.thread = t /\ last'.op = "dequeue") =>
        /\ last'.ret = FALSE <=> elements[t] = <<>>
        /\ heapState[t] = "alive" => heap'[t] = heap[t]
        /\ ~last'.ret => log'[t] = log[t] /\ elements'[t] = elements[t]
        /\ last'.ret =>
            /\ elements'[t] = Tail(elements[t])
            /\ log'[t] = Append(log[t], Release(t, Head(elements[t])))

\* C6: dequeue() returns false exactly when the queue is empty, and then calls
\* no deleter and leaves queue and arena alone; when it returns true it has
\* removed the head entry and nothing else, and called that entry's deleter
\* once, on the arena bytes at the entry's offset.
C6_DequeueHeadOnce == [][\A t \in Threads : C6_Dequeue(t)]_vars

\* A dequeue() that returned true with a second entry still pending.
C6_Witness ==
    /\ last.thread = 1 /\ last.op = "dequeue" /\ last.ret
    /\ Len(log[1]) = 1 /\ Len(elements[1]) = 1
    /\ log[1][1].at = 0 /\ elements[1][1].offset = 8

\* A clear() call by thread t.
C7_Clear(t) ==
    (last'.thread = t /\ last'.op = "clear") =>
        /\ log'[t] = log[t] \o [i \in 1..Len(elements[t]) |->
                                   Release(t, elements[t][i])]
        /\ elements'[t] = <<>>
        /\ heapState[t] = "alive" => heap'[t] = heap[t]

\* C7: clear() on K pending entries calls exactly their K deleters, head to
\* tail, each on the arena bytes at its offset, and leaves the queue empty
\* and the arena as it was; on an empty queue it calls none.
C7_ClearRunsAll == [][\A t \in Threads : C7_Clear(t)]_vars

\* A clear() that found two entries of different sizes.
C7_Witness ==
    /\ last.thread = 1 /\ last.op = "clear"
    /\ Len(log[1]) = 2 /\ elements[1] = <<>>
    /\ log[1][1].region = "heap" /\ log[1][2].region = "heap"
    /\ log[1][1].at = 0 /\ log[1][2].at = 8

\* The step leaves the heap and the history of thread t as they were.
HeapUntouched(t) ==
    /\ heapState'[t] = heapState[t]
    /\ heap'[t] = heap[t]
    /\ elements'[t] = elements[t]
    /\ log'[t] = log[t]
    /\ enq'[t] = enq[t]

\* Thread t constructs, or destroys, a slot of a trivially destructible type.
C8_Trivial(t) ==
    /\ (/\ Len(slots'[t]) = Len(slots[t]) + 1
        /\ is_trivially_destructible(slots'[t][Len(slots'[t])].type))
       => HeapUntouched(t)
    /\ \A i \in 1..Len(slots[t]) :
        (/\ slots'[t] = Remove(slots[t], i)
         /\ is_trivially_destructible(slots[t][i].type))
        => HeapUntouched(t)

\* C8: constructing a slot of a trivially destructible type, and destroying
\* it, leaves the thread's heap as it was (not even constructed by get()),
\* hands nothing to enqueue and calls no deleter.
C8_TrivialNeverEnqueued == [][\A t \in Threads : C8_Trivial(t)]_vars

\* Two values constructed and destroyed, one of them of the trivial type: one
\* entry pending, nothing else handed over.
C8_Witness ==
    /\ made[1] = 2 /\ slots[1] = <<>>
    /\ Len(enq[1]) = 1 /\ Len(elements[1]) = 1 /\ log[1] = <<>>
    /\ last = NoCall

\* The step is one of thread t.
Acts(t) ==
    \/ last'.thread = t
    \/ slots'[t] # slots[t]
    \/ made'[t] # made[t]
    \/ exited'[t] # exited[t]

\* What thread t has released or holds pending, it handed to enqueue itself.
C9_OwnValues(t) ==
    /\ \A p \in 1..Len(log[t]) :
         \E i \in 1..Len(enq[t]) : ObjectOf(enq[t][i]) = ObjectOf(log[t][p].object)
    /\ \A p \in 1..Len(elements[t]) :
         \E i \in 1..Len(enq[t]) : ObjectOf(enq[t][i]) = Pending(t)[p]

\* Whatever changes in heap t or in t's log is changed by a step of thread t.
C9_OwnHeap(t) ==
    (\/ heap'[t] # heap[t]
     \/ elements'[t] # elements[t]
     \/ heapState'[t] # heapState[t]
     \/ log'[t] # log[t]) => Acts(t)

\* C9: only a step of thread t changes the queue, the arena or the lifetime
\* of t's heap, and the cleanups a thread runs, like the entries pending in
\* its heap, are those of values that this thread handed to enqueue.
C9_PerThreadHeap ==
    /\ [](\A t \in Threads : C9_OwnValues(t))
    /\ [][\A t \in Threads : C9_OwnHeap(t)]_vars

\* Thread 1 has drained its own entry while an entry of thread 2 stays
\* pending in thread 2's heap.
C9_Witness ==
    /\ last.thread = 1 /\ last.op = "clear"
    /\ Len(log[1]) = 1 /\ elements[1] = <<>>
    /\ Len(elements[2]) = 1 /\ log[2] = <<>>

\* The offsets given to the entries buffered so far in heap t, in the order
\* of buffering: those released, then those pending.
Assigned(t) ==
    LET fromHeap == SelectSeq(log[t], LAMBDA r : r.region = "heap")
    IN  [i \in 1..Len(fromHeap) |-> fromHeap[i].at]
        \o [i \in 1..Len(elements[t]) |-> elements[t][i].offset]

\* C10 as claimed: over the lifetime of a heap the offsets given to buffered
\* entries are strictly increasing, also across dequeue() and clear().
C10_NeverReused ==
    \A t \in Threads : \A i, j \in 1..Len(Assigned(t)) :
        i < j => Assigned(t)[i] < Assigned(t)[j]

\* The entries pending in heap t lie one after the other within the capacity.
C10_Contiguous(t) ==
    \A i \in 1..Len(elements[t]) :
        /\ elements[t][i].size > 0
        /\ elements[t][i].offset + elements[t][i].size <= Capacity
        /\ i > 1 => elements[t][i].offset
                      = elements[t][i - 1].offset + elements[t][i - 1].size

\* The first entry buffered into an empty queue starts at offset 0.
C10_Restart(t) ==
    (elements[t] = <<>> /\ elements'[t] # <<>>) => elements'[t][1].offset = 0

\* C10 as amended: the offsets of the entries pending together are strictly
\* increasing, each entry starting where the one before it ends and ending
\* within the capacity, so no range is given out while an entry holds it;
\* but an entry buffered into an empty queue starts at offset 0 again, also
\* when ranges there were given out before.
C10_ReusedOnceEmpty ==
    /\ [](\A t \in Threads : C10_Contiguous(t))
    /\ [][\A t \in Threads : C10_Restart(t)]_vars

\* An entry is pending at offset 0, where an entry released earlier lay.
C10_Witness ==
    /\ Len(log[1]) = 1 /\ log[1][1].region = "heap" /\ log[1][1].at = 0
    /\ Len(elements[1]) = 2 /\ elements[1][1].offset = 0
    /\ Pending(1)[1] # ObjectOf(log[1][1].object)

\* A destruction by thread t of a slot with a destructor: the entry is
\* buffered at the end of the tail entry exactly when it ends within the
\* capacity.
C11_Buffered(t) ==
    \A i \in 1..Len(slots[t]) :
        LET slot == slots[t][i]
            size == sizeof(slot.type)
            fits == End(t) + size <= Capacity
        IN  (/\ slots'[t] = Remove(slots[t], i)
             /\ ~is_trivially_destructible(slot.type))
            => /\ fits =>
                    /\ elements'[t] = Append(elements[t],
                           [size |-> size, deleter |-> deleter(slot.type),
                            offset |-> End(t)])
                    /\ SubSeq(heap'[t], End(t) + 1, End(t) + size) = slot.value
                    /\ log'[t] = log[t]
               /\ ~fits => elements'[t] = elements[t] /\ log'[t] # log[t]

\* Entries of 8 bytes only, none released from the arena so far: the first
\* Capacity \div 8 of them are pending, the later ones were cleaned up at once.
C11_EightByteEntries(t) ==
    LET room == Capacity \div 8
        kept == IF Len(enq[t]) <= room THEN Len(enq[t]) ELSE room
    IN  (/\ \A i \in 1..Len(enq[t]) : Len(enq[t][i]) = 8
         /\ \A p \in 1..Len(log[t]) : log[t][p].region # "heap")
        => /\ Len(elements[t]) = kept
           /\ \A i \in 1..kept :
                /\ elements[t][i].offset = 8 * (i - 1)
                /\ Pending(t)[i] = ObjectOf(enq[t][i])
           /\ Len(log[t]) = Len(enq[t]) - kept
           /\ \A p \in 1..Len(log[t]) : log[t][p].object = enq[t][kept + p]

\* C11: enqueue buffers an entry exactly when offset + size <= capacity, the
\* offset being 0 for an empty queue and the end of the tail entry otherwise,
\* so an entry ending exactly at the capacity is buffered; with capacity 16
\* and 8-byte entries enqueued with no dequeue in between exactly the first
\* two are pending, every later one is cleaned up at once and never queued.
C11_BufferedIffFits ==
    /\ [](\A t \in Threads : C11_EightByteEntries(t))
    /\ [][\A t \in Threads : C11_Buffered(t)]_vars

\* Three 8-byte values destroyed in a row: two pending, the second ending at
\* the capacity, the third cleaned up in place.
C11_Witness ==
    /\ Len(enq[1]) = 3 /\ \A i \in 1..3 : Len(enq[1][i]) = 8
    /\ Len(elements[1]) = 2
    /\ elements[1][2].offset + elements[1][2].size = Capacity
    /\ Len(log[1]) = 1 /\ log[1][1].region = "value"
    /\ log[1][1].object = enq[1][3]

\* The arena bytes of the i-th entry pending in heap g.
Bytes(g, i) ==
    SubSeq(heap[g], elements[g][i].offset + 1,
           elements[g][i].offset + elements[g][i].size)

\* The entries pending in heap t hold, head to tail, images handed to enqueue
\* in that order.
C13_EnqueueOrder(t) ==
    \E f \in [1..Len(elements[t]) -> 1..Len(enq[t])] :
        /\ \A i \in 1..Len(elements[t]) : Bytes(t, i) = enq[t][f[i]]
        /\ \A i, j \in 1..Len(elements[t]) : i < j => f[i] < f[j]

\* The byte ranges of the entries pending in heap t.
C13_Ranges(t) ==
    /\ \A i \in 1..Len(elements[t]) :
        /\ 0 <= elements[t][i].offset
        /\ elements[t][i].offset + elements[t][i].size <= Len(heap[t])
        /\ Len(heap[t]) = Capacity
    /\ \A i, j \in 1..Len(elements[t]) :
        i < j =>
            /\ elements[t][i].offset < elements[t][j].offset
            /\ elements[t][i].offset + elements[t][i].size
                 <= elements[t][j].offset
            /\ j = i + 1 => elements[t][j].offset
                              = elements[t][i].offset + elements[t][i].size

\* C13: in every reachable state the entries pending in a heap are, head to
\* tail, in the order in which they were enqueued, their offsets strictly
\* increasing, each entry starting where the entry before it ends, the ranges
\* pairwise disjoint and every range inside [0, capacity).
C13_PendingLaidOutInOrder ==
    \A t \in Threads : C13_Ranges(t) /\ C13_EnqueueOrder(t)

\* Two entries are pending, the first one enqueued at offset 0 after an entry
\* that has been released since.
C13_Witness ==
    /\ Len(log[1]) = 1 /\ log[1][1].region = "heap"
    /\ Len(elements[1]) = 2 /\ Len(enq[1]) = 3
    /\ Bytes(1, 1) = enq[1][2] /\ Bytes(1, 2) = enq[1][3]
    /\ elements[1][1].offset = 0 /\ log[1][1].object = enq[1][1]

\* q is p with entries added at the tail.
Extends(p, q) ==
    /\ Len(p) <= Len(q)
    /\ SubSeq(q, 1, Len(p)) = p

\* A step that finds heap t alive leaves the size of its arena alone; if the
\* heap is still alive afterwards, the entries that were pending are still
\* pending, apart from those released from the head, on the same bytes.
C17_SameHeap(t) ==
    heapState[t] = "alive" =>
        /\ Len(heap'[t]) = Len(heap[t])
        /\ heapState'[t] # "none"
        /\ heapState'[t] = "alive" =>
            /\ \/ Extends(elements[t], elements'[t])
               \/ \E k \in 1..Len(elements[t]) :
                     elements'[t] = SubSeq(elements[t], k + 1, Len(elements[t]))
            /\ \A e \in {elements[t][i] : i \in 1..Len(elements[t])}
                       \cap {elements'[t][i] : i \in 1..Len(elements'[t])} :
                 SubSeq(heap'[t], e.offset + 1, e.offset + e.size)
                   = SubSeq(heap[t], e.offset + 1, e.offset + e.size)

\* C17: the capacity of a heap is the one its constructor is given when get()
\* first constructs it for the thread, the default one; no later destruction,
\* dequeue(), clear() or get() changes it, and every later get() on the thread
\* returns that same heap with its pending entries intact, not a fresh one.
C17_CapacityFixed ==
    /\ [](\A t \in Threads :
            heapState[t] # "none" => Len(heap[t]) = Capacity)
    /\ [][\A t \in Threads : C17_SameHeap(t)]_vars

\* Two separate destructions, each through get(): both entries are pending in
\* the one arena of the default capacity.
C17_Witness ==
    /\ heapState[1] = "alive" /\ Len(heap[1]) = Capacity
    /\ made[1] = 2 /\ slots[1] = <<>> /\ last = NoCall
    /\ Len(elements[1]) = 2 /\ log[1] = <<>>
    /\ Bytes(1, 1) = enq[1][1] /\ Bytes(1, 2) = enq[1][2]

\* The places in thread t's log of the calls of deleter del on the arena
\* bytes `bytes`.
ReleasedAt(t, del, bytes) ==
    {p \in 1..Len(log[t]) : /\ log[t][p].region = "heap"
                            /\ log[t][p].deleter = del
                            /\ log[t][p].object = bytes}

\* C12 as claimed: dequeue takes the head entry out of the queue before it
\* calls the entry's deleter, so a deleter that calls dequeue() on the same
\* heap finds another head: no entry's deleter is called a second time.
C12_CalledOncePerEntry ==
    \A t \in Threads :
        Defined(t) =>
            \A p \in 1..Len(log[t]) :
                log[t][p].region = "heap" =>
                    ReleasedAt(t, log[t][p].deleter, log[t][p].object) = {p}

\* The byte images thread t has handed to enqueue.
Enqueued(t) == {enq[t][i] : i \in 1..Len(enq[t])}

\* Every entry pending in heap t holds, and every deleter called on arena
\* bytes was handed, a whole image as it was handed to enqueue.
C14_Intact(t) ==
    /\ \A i \in 1..Len(elements[t]) :
        /\ Bytes(t, i) \in Enqueued(t)
        /\ Len(Bytes(t, i)) = elements[t][i].size
    /\ \A p \in 1..Len(log[t]) :
        log[t][p].region = "heap" => log[t][p].object \in Enqueued(t)

\* An entry pending before and after a step has the same bytes in its range.
C14_Kept(t) ==
    (Defined(t) /\ heapState'[t] # "undefined") =>
        \A e \in {elements[t][i] : i \in 1..Len(elements[t])}
                 \cap {elements'[t][i] : i \in 1..Len(elements'[t])} :
            SubSeq(heap'[t], e.offset + 1, e.offset + e.size)
              = SubSeq(heap[t], e.offset + 1, e.offset + e.size)

\* C14: the arena bytes handed to the deleter of a buffered entry are the
\* bytes copied when it was enqueued: while an entry is pending no enqueue
\* writes into its range, be it an enqueue made after earlier entries were
\* dequeued or one made by a deleter that is running.
C14_BytesKeptUntilRelease ==
    /\ [](\A t \in Threads : Defined(t) => C14_Intact(t))
    /\ [][\A t \in Threads : C14_Kept(t)]_vars

\* A Nest and then a Noisy were pending; ~Nest(), run by dequeue(), enqueued
\* its member behind the Noisy, and both were later released on their bytes.
C14_Witness ==
    /\ Len(log[1]) = 3 /\ Len(enq[1]) = 3
    /\ \A p \in 1..3 : log[1][p].region = "heap"
    /\ log[1][1].deleter = "Nest" /\ log[1][1].at = 0
    /\ log[1][2].deleter = "Noisy" /\ log[1][2].object = enq[1][2]
    /\ log[1][3].deleter = "Tiny" /\ log[1][3].at = 12
    /\ log[1][3].object = log[1][1].object

\* The deleter calls thread t makes in the step.
NewCalls(t) == SubSeq(log'[t], Len(log[t]) + 1, Len(log'[t]))

\* The place among the calls of the step of the release of the i-th entry
\* that was pending in heap t.
ReleasePos(t, i) ==
    CHOOSE p \in 0..Len(NewCalls(t)) :
        \/ p > 0 /\ NewCalls(t)[p] = Release(t, elements[t][i])
        \/ p = 0 /\ \A q \in 1..Len(NewCalls(t)) :
                       NewCalls(t)[q] # Release(t, elements[t][i])

\* ~Nest(), called at place p of the step, found room for its member: the
\* deleter of the member was not called on the spot.
MemberBuffered(t, p) ==
    ~(p < Len(NewCalls(t)) /\ NewCalls(t)[p + 1].region = "value")

\* clear() by thread t on a queue whose deleters do not dequeue: the entries
\* that were pending are released head to tail; a member that a ~Nest() of
\* the step enqueued lies behind every entry that was pending and is released
\* in the step after all of them; the queue is empty afterwards.
C16_Clear(t) ==
    (/\ last'.thread = t /\ last'.op = "clear"
     /\ Defined(t) /\ heapState'[t] # "undefined"
     /\ \A i \in 1..Len(elements[t]) : elements[t][i].deleter # "Drainer")
    => /\ elements'[t] = <<>>
       /\ \A i \in 1..Len(elements[t]) : ReleasePos(t, i) > 0
       /\ \A i, j \in 1..Len(elements[t]) :
            i < j => ReleasePos(t, i) < ReleasePos(t, j)
       /\ \A i \in 1..Len(elements[t]) :
            (/\ elements[t][i].deleter = "Nest"
             /\ MemberBuffered(t, ReleasePos(t, i)))
            => \E q \in 1..Len(NewCalls(t)) :
                 /\ NewCalls(t)[q].deleter = deleter("Tiny")
                 /\ NewCalls(t)[q].region = "heap"
                 /\ NewCalls(t)[q].object = Bytes(t, i)
                 /\ NewCalls(t)[q].at >= End(t)
                 /\ NewCalls(t)[q].at + sizeof("Tiny") <= Capacity
                 /\ \A j \in 1..Len(elements[t]) : ReleasePos(t, j) < q

\* C16: when a deleter that clear() is running enqueues a new entry on the
\* same heap, the entry is placed behind every entry pending, clear of the
\* entry being released, the same clear() releases it after all the entries
\* enqueued before it, and clear() returns with the queue empty.
C16_EnqueuedWhileDraining == [][\A t \in Threads : C16_Clear(t)]_vars

\* clear() found a Nest and a Noisy pending: the member that ~Nest() enqueued
\* at offset 12 was released last, and the queue is empty.
C16_Witness ==
    /\ last.thread = 1 /\ last.op = "clear" /\ elements[1] = <<>>
    /\ Len(log[1]) = 3 /\ Len(enq[1]) = 3
    /\ log[1][1].deleter = "Nest" /\ log[1][1].region = "heap"
    /\ log[1][2].deleter = "Noisy" /\ log[1][2].region = "heap"
    /\ log[1][3] = [deleter |-> "Tiny", region |-> "heap", at |-> 12,
                    object |-> log[1][1].object]

====
